---- MODULE Spec2Model ----
(***************************************************************************)
(* Single-node meta server (meta/src/service/single.rs): the read, write,  *)
(* debug and watch routes over one Arc<RwLock<StateMachine>>.              *)
(*                                                                         *)
(* Each request is a process whose steps are the await points of its       *)
(* handler.  Time is a discrete clock kept per watch session (elapsed      *)
(* since `now`, and what is left of the current 20 s timeout).  Handler    *)
(* steps take no time: the clock advances only when every request in       *)
(* flight is blocked in tokio::time::timeout.                              *)
(*                                                                         *)
(* StateMachine (crate::store::storage) is outside single.rs; its          *)
(* operations are modelled from their documented contract.                 *)
(***************************************************************************)
EXTENDS Integers, Sequences, FiniteSets, TLC

\* ---------------------------------------------------------------- bounds
MaxWrites == 2      \* successful writes in one run
MaxBase == 1        \* largest base_ver a client starts with

\* ------------------------------------------------------------- constants
IdleTimeout == 20   \* Duration::from_secs(20)
HardCeiling == 30   \* Duration::from_secs(30)
ElapsedCap == HardCeiling + 2 * IdleTimeout
\* The clock advances in steps that reach both durations exactly.
TickStep == HardCeiling - IdleTimeout

Watchers == {"w1", "w2"}
Writers == {"x1", "x2"}
Readers == {"r1"}
Procs == Watchers \cup Writers \cup Readers


\* What each client may ask for.
WatchFilters(w) ==
    IF w = "w1" THEN {[cluster |-> "c1", tenants |-> {"a"}]}
    ELSE {[cluster |-> "c1", tenants |-> {}], [cluster |-> "c2", tenants |-> {"b"}]}

\* A client that starts from version 0.
FirstRequests(w) ==
    {[cluster |-> f.cluster, tenants |-> f.tenants, base_ver |-> 0] : f \in WatchFilters(w)}

\* Any (cluster, tenants, base_ver) a client may send.
AnyRequests ==
    {[cluster |-> f.cluster, tenants |-> f.tenants, base_ver |-> b] :
        f \in UNION {WatchFilters(w) : w \in Watchers}, b \in 0..MaxBase}

\* Writers write to disjoint tenants.
WriteTarget(x) ==
    IF x = "x1" THEN [cluster |-> "c1", tenant |-> "a"]
    ELSE [cluster |-> "c1", tenant |-> "b"]

NoSub == -1
NoData == [entry_logs |-> <<>>, max_ver |-> 0]
NoRsp == [kind |-> "none", data |-> NoData]

Min(S) == CHOOSE m \in S : \A n \in S : m <= n

VARIABLES
    version,        \* StateMachine: version counter
    change_logs,    \* StateMachine: change log, one row per applied write
    watch_tail,     \* storage.watch: number of events sent on the broadcast channel
    lock_readers,   \* RwLock: requests holding a read guard
    lock_writer,    \* RwLock: requests holding the write guard
    pc,             \* position of each request in its handler
    rsp,            \* process_watch: the value returned, until the reply is sent
    req,            \* process_watch: (cluster, tenants, base_ver)
    notify,         \* process_watch: the receiver's position, NoSub when there is none
    follow_ver,     \* process_watch: follow_ver
    elapsed,        \* process_watch: now.elapsed(), in seconds
    wait_left,      \* process_watch: what is left of the 20 s timeout
    woke,           \* process_watch: result of the last timeout(.., notify.recv())
    watch_data,     \* process_watch: watch_data of the last check
    seen,           \* watch client: versions of the entries received so far
    wver            \* process_write_command: the version counter as the writer read it

vars == <<version, change_logs, watch_tail, lock_readers, lock_writer, pc, rsp, req,
          notify, follow_ver, elapsed, wait_left, woke, watch_data, seen, wver>>

storeVars == <<version, change_logs, watch_tail>>
lockVars == <<lock_readers, lock_writer>>
sessionVars == <<req, notify, follow_ver, elapsed, wait_left, woke, watch_data>>
localVars == <<seen, wver>>

\* ------------------------------------------------------------ StateMachine

Matches(e, cluster, tenants) ==
    /\ e.cluster = cluster
    /\ (tenants = {} \/ e.tenant \in tenants)

\* StateMachine::read_change_logs(cluster, tenants, base_ver)
ReadChangeLogs(cluster, tenants, base) ==
    [entry_logs |-> SelectSeq(change_logs,
                              LAMBDA e : e.version > base /\ Matches(e, cluster, tenants)),
     max_ver |-> version]

\* WatchData::need_return(base_ver)
NeedReturn(data, base) ==
    \/ data.entry_logs # <<>>
    \/ data.max_ver > base

\* StateMachine::process_write_command, once it has read the version counter as
\* ver: a command the store applies takes the next version, appends one row
\* tagged with it and sends one event; one it refuses changes nothing.
ProcessWriteCommand(cmd, ver, applies) ==
    IF applies
    THEN /\ version' = ver + 1
         /\ change_logs' = Append(change_logs,
                [version |-> ver + 1, cluster |-> cmd.cluster, tenant |-> cmd.tenant])
         /\ watch_tail' = watch_tail + 1
    ELSE UNCHANGED storeVars

\* ------------------------------------------------------------------ RwLock

CanRead_IgnoresWriter == TRUE

\* storage.read().await completes
CanRead == lock_writer = {}

\* storage.write().await completes
CanWrite == lock_writer = {} /\ lock_readers = {}

\* ------------------------------------------------------------------- Init

InitStore ==
    /\ version = 0
    /\ change_logs = <<>>
    /\ watch_tail = 0
    /\ lock_readers = {}
    /\ lock_writer = {}
    /\ pc = [p \in Procs |-> "idle"]
    /\ rsp = [w \in Watchers |-> NoRsp]
    /\ notify = [w \in Watchers |-> NoSub]
    /\ follow_ver = [w \in Watchers |-> 0]
    /\ elapsed = [w \in Watchers |-> 0]
    /\ wait_left = [w \in Watchers |-> 0]
    /\ woke = [w \in Watchers |-> "none"]
    /\ watch_data = [w \in Watchers |-> NoData]
    /\ seen = [w \in Watchers |-> <<>>]
    /\ wver = [x \in Writers |-> 0]

\* Two watch clients that start from version 0 and follow the change log.
Init ==
    /\ InitStore
    /\ req \in {f \in [Watchers -> UNION {FirstRequests(w) : w \in Watchers}] :
                    \A w \in Watchers : f[w] \in FirstRequests(w)}

\* Clients that send any request.
InitOpen ==
    /\ InitStore
    /\ req = [w \in Watchers |-> CHOOSE r \in FirstRequests(w) : TRUE]

\* ------------------------------------------------------------------ write

Rejected == [kind |-> "rejected", data |-> NoData]
Replied(data) == [kind |-> "ok", data |-> data]

\* write, lines 85-87: the body is decoded; a malformed one is rejected.
WriteDecode(x, wellformed) ==
    /\ pc[x] = "idle"
    /\ pc' = [pc EXCEPT ![x] = IF wellformed THEN "acquire" ELSE "rejected"]
    /\ UNCHANGED <<storeVars, lockVars, rsp, sessionVars, localVars>>

WriteAcquire_IgnoresWriter(x) ==
    /\ pc[x] = "acquire"
    /\ lock_readers = {}
    /\ lock_writer' = lock_writer \cup {x}
    /\ pc' = [pc EXCEPT ![x] = "locked"]
    /\ UNCHANGED <<storeVars, lock_readers, rsp, sessionVars, localVars>>

\* write, line 89: storage.write().await
WriteAcquire(x) ==
    /\ pc[x] = "acquire"
    /\ CanWrite
    /\ lock_writer' = lock_writer \cup {x}
    /\ pc' = [pc EXCEPT ![x] = "locked"]
    /\ UNCHANGED <<storeVars, lock_readers, rsp, sessionVars, localVars>>

\* write, line 89: process_write_command starts under the guard and reads the
\* version counter.
WriteObserve(x) ==
    /\ pc[x] = "locked"
    /\ wver' = [wver EXCEPT ![x] = version]
    /\ pc' = [pc EXCEPT ![x] = "observed"]
    /\ UNCHANGED <<storeVars, lockVars, rsp, sessionVars, seen>>

\* write, lines 89-91: process_write_command completes; the guard, a temporary,
\* is dropped at the end of the statement and the store's result is the reply.
WriteProcess(x, applies) ==
    /\ pc[x] = "observed"
    /\ applies => wver[x] < MaxWrites
    /\ ProcessWriteCommand(WriteTarget(x), wver[x], applies)
    /\ lock_writer' = lock_writer \ {x}
    /\ wver' = [wver EXCEPT ![x] = 0]
    /\ pc' = [pc EXCEPT ![x] = "idle"]
    /\ UNCHANGED <<lock_readers, rsp, sessionVars, seen>>

\* ----------------------------------------------------------- read, debug

\* read, lines 68-70
ReadDecode(r, wellformed) ==
    /\ pc[r] = "idle"
    /\ pc' = [pc EXCEPT ![r] = IF wellformed THEN "acquire" ELSE "rejected"]
    /\ UNCHANGED <<storeVars, lockVars, rsp, sessionVars, localVars>>

\* debug, line 113: no body to decode
DebugRequest(r) ==
    /\ pc[r] = "idle"
    /\ pc' = [pc EXCEPT ![r] = "acquire"]
    /\ UNCHANGED <<storeVars, lockVars, rsp, sessionVars, localVars>>

\* read, line 72 and debug, line 116: storage.read().await
ReadAcquire(r) ==
    /\ pc[r] = "acquire"
    /\ CanRead
    /\ lock_readers' = lock_readers \cup {r}
    /\ pc' = [pc EXCEPT ![r] = "locked"]
    /\ UNCHANGED <<storeVars, lock_writer, rsp, sessionVars, localVars>>

\* read, lines 72-74 and debug, lines 118-123: the store answers, the guard is
\* dropped and the reply is sent.
ReadProcess(r) ==
    /\ pc[r] = "locked"
    /\ lock_readers' = lock_readers \ {r}
    /\ pc' = [pc EXCEPT ![r] = "idle"]
    /\ UNCHANGED <<storeVars, lock_writer, rsp, sessionVars, localVars>>

\* The rejection of a malformed body is sent (write line 87, read line 70).
SendRejection(p) ==
    /\ p \in Writers \cup Readers
    /\ pc[p] = "rejected"
    /\ pc' = [pc EXCEPT ![p] = "idle"]
    /\ UNCHANGED <<storeVars, lockVars, rsp, sessionVars, localVars>>

\* ------------------------------------------------------------------ watch

Versions(entries) == [i \in 1..Len(entries) |-> entries[i].version]

Return_KeepsReceiver(w, data) ==
    /\ rsp' = [rsp EXCEPT ![w] = Replied(data)]
    /\ UNCHANGED notify
    /\ pc' = [pc EXCEPT ![w] = "returned"]

\* process_watch returns Ok(response_encode(Ok(watch_data))), lines 143 and 160;
\* the receiver goes out of scope.
Return(w, data) ==
    /\ rsp' = [rsp EXCEPT ![w] = Replied(data)]
    /\ notify' = [notify EXCEPT ![w] = NoSub]
    /\ pc' = [pc EXCEPT ![w] = "returned"]

WatchDecode_SubscribeFirst(w, wellformed, r) ==
    /\ pc[w] = "idle"
    /\ notify' = [notify EXCEPT ![w] = watch_tail]
    /\ IF wellformed
       THEN /\ req' = [req EXCEPT ![w] = r]
            /\ pc' = [pc EXCEPT ![w] = "acquire"]
            /\ UNCHANGED rsp
       ELSE /\ rsp' = [rsp EXCEPT ![w] = Rejected]
            /\ pc' = [pc EXCEPT ![w] = "returned"]
            /\ UNCHANGED req
    /\ UNCHANGED <<storeVars, lockVars, follow_ver, elapsed, wait_left, woke,
                   watch_data, localVars>>

\* process_watch, line 132: the body is decoded; a malformed one is an Err.
WatchDecode(w, wellformed, r) ==
    /\ pc[w] = "idle"
    /\ IF wellformed
       THEN /\ req' = [req EXCEPT ![w] = r]
            /\ pc' = [pc EXCEPT ![w] = "acquire"]
            /\ UNCHANGED rsp
       ELSE /\ rsp' = [rsp EXCEPT ![w] = Rejected]
            /\ pc' = [pc EXCEPT ![w] = "returned"]
            /\ UNCHANGED req
    /\ UNCHANGED <<storeVars, lockVars, notify, follow_ver, elapsed, wait_left, woke,
                   watch_data, localVars>>

Filter_NoTenants(w) == [cluster |-> req[w].cluster, tenants |-> {}]

\* process_watch, lines 133, 141 and 157: the cluster and tenants every check
\* of a session passes to read_change_logs.
Filter(w) == [cluster |-> req[w].cluster, tenants |-> req[w].tenants]

GuardAfterCheck_Dropped(w) == lock_readers

\* process_watch, lines 139-147: the read guard of the initial check lives to
\* the end of the block, past the subscribe.
GuardAfterCheck(w) == lock_readers \cup {w}

SubscribeAt_Replay(w) == 0

\* process_watch, line 146: storage.watch.subscribe() gives a receiver that
\* starts at the channel's tail, so it gets only later events.
SubscribeAt(w) == watch_tail

InitialDue_Never(data, base) == FALSE

\* process_watch, line 142
InitialDue(data, base) == NeedReturn(data, base)

\* process_watch, lines 140-145: storage.read().await, then the initial check
\* under the read guard.  A due response returns, dropping the guard; otherwise
\* the watcher goes on to subscribe, still holding the guard.
WatchInitialCheck(w) ==
    /\ pc[w] = "acquire"
    /\ CanRead
    /\ LET data == ReadChangeLogs(Filter(w).cluster, Filter(w).tenants, req[w].base_ver) IN
       IF InitialDue(data, req[w].base_ver)
       THEN /\ Return(w, data)
            /\ UNCHANGED <<lock_readers, watch_data>>
       ELSE /\ lock_readers' = GuardAfterCheck(w)
            /\ watch_data' = [watch_data EXCEPT ![w] = data]
            /\ pc' = [pc EXCEPT ![w] = "checked"]
            /\ UNCHANGED <<rsp, notify>>
    /\ UNCHANGED <<storeVars, lock_writer, req, follow_ver, elapsed, wait_left, woke,
                   localVars>>

WatchSubscribe_KeepsGuard(w) ==
    /\ pc[w] = "checked"
    /\ notify' = [notify EXCEPT ![w] = SubscribeAt(w)]
    /\ follow_ver' = [follow_ver EXCEPT ![w] = req[w].base_ver]
    /\ elapsed' = [elapsed EXCEPT ![w] = 0]
    /\ wait_left' = [wait_left EXCEPT ![w] = IdleTimeout]
    /\ watch_data' = [watch_data EXCEPT ![w] = NoData]
    /\ pc' = [pc EXCEPT ![w] = "waiting"]
    /\ UNCHANGED <<storeVars, lockVars, rsp, req, woke, localVars>>

\* process_watch, lines 146-152: storage.watch.subscribe(); the guard is dropped
\* at the end of the block, follow_ver and now are set, and the first
\* timeout(20 s, notify.recv()) starts.
WatchSubscribe(w) ==
    /\ pc[w] = "checked"
    /\ notify' = [notify EXCEPT ![w] = SubscribeAt(w)]
    /\ lock_readers' = lock_readers \ {w}
    /\ follow_ver' = [follow_ver EXCEPT ![w] = req[w].base_ver]
    /\ elapsed' = [elapsed EXCEPT ![w] = 0]
    /\ wait_left' = [wait_left EXCEPT ![w] = IdleTimeout]
    /\ watch_data' = [watch_data EXCEPT ![w] = NoData]
    /\ pc' = [pc EXCEPT ![w] = "waiting"]
    /\ UNCHANGED <<storeVars, lock_writer, rsp, req, woke, localVars>>

\* process_watch, line 152: notify.recv() completes.  Ok(_) takes the next
\* event; Err(Lagged) skips to a later one.  Either ends the wait.
WatchRecv(w) ==
    /\ pc[w] = "waiting"
    /\ notify[w] < watch_tail
    /\ \E n \in (notify[w] + 1)..watch_tail :
           notify' = [notify EXCEPT ![w] = n]
    /\ woke' = [woke EXCEPT ![w] = "event"]
    /\ wait_left' = [wait_left EXCEPT ![w] = 0]
    /\ pc' = [pc EXCEPT ![w] = "reacquire"]
    /\ UNCHANGED <<storeVars, lockVars, rsp, req, follow_ver, elapsed, watch_data,
                   localVars>>

WatchTimeout_Unguarded(w) ==
    /\ pc[w] = "waiting"
    /\ wait_left[w] = 0
    /\ woke' = [woke EXCEPT ![w] = "timeout"]
    /\ pc' = [pc EXCEPT ![w] = "reacquire"]
    /\ UNCHANGED <<storeVars, lockVars, rsp, req, notify, follow_ver, elapsed, wait_left,
                   watch_data, localVars>>

\* process_watch, line 152: the 20 s elapse with no event to receive.
WatchTimeout(w) ==
    /\ pc[w] = "waiting"
    /\ notify[w] = watch_tail
    /\ wait_left[w] = 0
    /\ woke' = [woke EXCEPT ![w] = "timeout"]
    /\ pc' = [pc EXCEPT ![w] = "reacquire"]
    /\ UNCHANGED <<storeVars, lockVars, rsp, req, notify, follow_ver, elapsed, wait_left,
                   watch_data, localVars>>

\* process_watch, line 155: storage.read().await
WatchLoopAcquire(w) ==
    /\ pc[w] = "reacquire"
    /\ CanRead
    /\ lock_readers' = lock_readers \cup {w}
    /\ pc' = [pc EXCEPT ![w] = "loop_read"]
    /\ UNCHANGED <<storeVars, lock_writer, rsp, sessionVars, localVars>>

LoopDue_CeilingOnly(data, base, e) == e > HardCeiling

LoopDue_NoCeiling(data, base, e) == NeedReturn(data, base)

LoopDue_IdleCeiling(data, base, e) == NeedReturn(data, base) \/ e >= IdleTimeout

LoopDue_EntriesOnly(data, base, e) == data.entry_logs # <<>> \/ e > HardCeiling

LoopDue_CeilingReached(data, base, e) == NeedReturn(data, base) \/ e >= HardCeiling

\* process_watch, line 159
LoopDue(data, base, e) ==
    NeedReturn(data, base) \/ e > HardCeiling

LoopBase_StoreVersion(w) == version

\* process_watch, line 157: the version a check in the loop reads from
LoopBase(w) == follow_ver[w]

NextFollow_Assign(follow, data) == data.max_ver

\* process_watch, lines 163-165
NextFollow(follow, data) ==
    IF follow < data.max_ver THEN data.max_ver ELSE follow

WatchLoopCheck_Resubscribe(w) ==
    /\ pc[w] = "loop_read"
    /\ lock_readers' = lock_readers \ {w}
    /\ LET data == ReadChangeLogs(Filter(w).cluster, Filter(w).tenants, LoopBase(w)) IN
       IF LoopDue(data, req[w].base_ver, elapsed[w])
       THEN /\ Return(w, data)
            /\ UNCHANGED <<follow_ver, wait_left, woke>>
       ELSE /\ follow_ver' = [follow_ver EXCEPT ![w] = NextFollow(@, data)]
            /\ wait_left' = [wait_left EXCEPT ![w] = IdleTimeout]
            /\ woke' = [woke EXCEPT ![w] = "none"]
            /\ pc' = [pc EXCEPT ![w] = "waiting"]
            /\ notify' = [notify EXCEPT ![w] = watch_tail]
            /\ UNCHANGED rsp
    /\ UNCHANGED <<storeVars, lock_writer, req, elapsed, watch_data, localVars>>

\* process_watch, lines 154-166 and 152: read_change_logs from follow_ver under
\* the guard, a temporary dropped at the end of the statement; then return, or
\* advance follow_ver and wait again.
WatchLoopCheck(w) ==
    /\ pc[w] = "loop_read"
    /\ lock_readers' = lock_readers \ {w}
    /\ LET data == ReadChangeLogs(Filter(w).cluster, Filter(w).tenants, LoopBase(w)) IN
       IF LoopDue(data, req[w].base_ver, elapsed[w])
       THEN /\ Return(w, data)
            /\ UNCHANGED <<follow_ver, wait_left, woke>>
       ELSE /\ follow_ver' = [follow_ver EXCEPT ![w] = NextFollow(@, data)]
            /\ wait_left' = [wait_left EXCEPT ![w] = IdleTimeout]
            /\ woke' = [woke EXCEPT ![w] = "none"]
            /\ pc' = [pc EXCEPT ![w] = "waiting"]
            /\ UNCHANGED <<rsp, notify>>
    /\ UNCHANGED <<storeVars, lock_writer, req, elapsed, watch_data, localVars>>

\* watch, lines 102-107: the reply is sent.  A client that follows the change
\* log keeps the entries and takes max_ver as the base_ver of its next call.
WatchReply(w, follows) ==
    /\ pc[w] = "returned"
    /\ IF follows /\ rsp[w].kind = "ok"
       THEN /\ req' = [req EXCEPT ![w].base_ver = rsp[w].data.max_ver]
            /\ seen' = [seen EXCEPT ![w] = @ \o Versions(rsp[w].data.entry_logs)]
       ELSE UNCHANGED <<req, seen>>
    /\ rsp' = [rsp EXCEPT ![w] = NoRsp]
    /\ follow_ver' = [follow_ver EXCEPT ![w] = 0]
    /\ elapsed' = [elapsed EXCEPT ![w] = 0]
    /\ wait_left' = [wait_left EXCEPT ![w] = 0]
    /\ woke' = [woke EXCEPT ![w] = "none"]
    /\ watch_data' = [watch_data EXCEPT ![w] = NoData]
    /\ pc' = [pc EXCEPT ![w] = "idle"]
    /\ UNCHANGED <<storeVars, lockVars, notify, wver>>

\* ------------------------------------------------------------------- time

Waiting == {w \in Watchers : pc[w] = "waiting"}

\* Every request in flight is blocked in timeout(.., notify.recv()) with
\* nothing to receive and time left.
Quiescent ==
    /\ \A p \in Procs : pc[p] \in {"idle", "waiting"}
    /\ \A w \in Waiting : notify[w] = watch_tail /\ wait_left[w] > 0

\* The clock advances, to the next timeout at most.
Tick ==
    /\ Waiting # {}
    /\ Quiescent
    /\ LET d == Min({TickStep} \cup {wait_left[w] : w \in Waiting}) IN
       /\ elapsed' = [w \in Watchers |->
                        IF w \in Waiting
                        THEN Min({elapsed[w] + d, ElapsedCap}) ELSE elapsed[w]]
       /\ wait_left' = [w \in Watchers |->
                          IF w \in Waiting THEN wait_left[w] - d ELSE wait_left[w]]
    /\ UNCHANGED <<storeVars, lockVars, pc, rsp, req, notify, follow_ver, woke,
                   watch_data, localVars>>

\* ---------------------------------------------------------- specification

\* Two following watch clients and two writers.
Next ==
    \/ \E x \in Writers : WriteDecode(x, TRUE)
    \/ \E x \in Writers : WriteAcquire(x)
    \/ \E x \in Writers : WriteObserve(x)
    \/ \E x \in Writers, applies \in BOOLEAN : WriteProcess(x, applies)
    \/ \E w \in Watchers : WatchDecode(w, TRUE, req[w])
    \/ \E w \in Watchers : WatchInitialCheck(w)
    \/ \E w \in Watchers : WatchSubscribe(w)
    \/ \E w \in Watchers : WatchRecv(w)
    \/ \E w \in Watchers : WatchTimeout(w)
    \/ \E w \in Watchers : WatchLoopAcquire(w)
    \/ \E w \in Watchers : WatchLoopCheck(w)
    \/ \E w \in Watchers : WatchReply(w, TRUE)
    \/ Tick

Spec == Init /\ [][Next]_vars

\* The write route as one step (lines 84-92): from taking the write guard to
\* dropping it no other request touches the store.
Write(x, applies) ==
    /\ pc[x] = "idle"
    /\ CanWrite
    /\ applies => version < MaxWrites
    /\ ProcessWriteCommand(WriteTarget(x), version, applies)
    /\ UNCHANGED <<lockVars, pc, rsp, sessionVars, localVars>>

\* The steps of a watch session that wait for nothing but the scheduler, and
\* the client's next call.
WatcherStep(w) ==
    \/ WatchDecode(w, TRUE, req[w])
    \/ WatchSubscribe(w)
    \/ WatchRecv(w)
    \/ WatchTimeout(w)
    \/ WatchLoopCheck(w)
    \/ WatchReply(w, TRUE)

\* The steps of a watch session that wait for the read lock.
WatcherLock(w) == WatchInitialCheck(w) \/ WatchLoopAcquire(w)

\* Two following watch clients and two writers, the write route as one step.
NextFair ==
    \/ \E x \in Writers, applies \in BOOLEAN : Write(x, applies)
    \/ \E w \in Watchers : WatcherStep(w)
    \/ \E w \in Watchers : WatcherLock(w)
    \/ Tick

\* tokio schedules every ready task, its RwLock is fair (a request that keeps
\* asking gets the lock), and time advances.
Fairness ==
    /\ \A w \in Watchers : WF_vars(WatcherStep(w)) /\ SF_vars(WatcherLock(w))
    /\ SF_vars(Tick)

FairSpec == Init /\ [][NextFair]_vars /\ Fairness

\* All four routes: one watch client sending any request, two writers, one
\* reader.
NextOpen ==
    \/ \E x \in Writers, ok \in BOOLEAN : WriteDecode(x, ok)
    \/ \E x \in Writers : WriteAcquire(x)
    \/ \E x \in Writers : WriteObserve(x)
    \/ \E x \in Writers, applies \in BOOLEAN : WriteProcess(x, applies)
    \/ \E r \in Readers, ok \in BOOLEAN : ReadDecode(r, ok)
    \/ \E r \in Readers : DebugRequest(r)
    \/ \E r \in Readers : ReadAcquire(r)
    \/ \E r \in Readers : ReadProcess(r)
    \/ \E p \in Writers \cup Readers : SendRejection(p)
    \/ \E ok \in BOOLEAN, r \in AnyRequests : WatchDecode("w1", ok, r)
    \/ WatchInitialCheck("w1")
    \/ WatchSubscribe("w1")
    \/ WatchRecv("w1")
    \/ WatchTimeout("w1")
    \/ WatchLoopAcquire("w1")
    \/ WatchLoopCheck("w1")
    \/ WatchReply("w1", FALSE)
    \/ Tick

SpecOpen == InitOpen /\ [][NextOpen]_vars

\* The steps of a write request once it holds the write guard.
WriterStep(x) == WriteObserve(x) \/ \E applies \in BOOLEAN : WriteProcess(x, applies)

\* Two watch clients that ask again from the same base_ver and two writers.
NextProgress ==
    \/ \E x \in Writers : WriteDecode(x, TRUE)
    \/ \E x \in Writers : WriteAcquire(x)
    \/ \E x \in Writers : WriterStep(x)
    \/ \E w \in Watchers : WatchDecode(w, TRUE, req[w])
    \/ \E w \in Watchers : WatchInitialCheck(w)
    \/ \E w \in Watchers : WatchSubscribe(w)
    \/ \E w \in Watchers : WatchRecv(w)
    \/ \E w \in Watchers : WatchTimeout(w)
    \/ \E w \in Watchers : WatchLoopAcquire(w)
    \/ \E w \in Watchers : WatchLoopCheck(w)
    \/ \E w \in Watchers : WatchReply(w, FALSE)
    \/ Tick

\* A task that holds a guard runs on and drops it, and the RwLock is fair: a
\* write request that keeps asking gets the write guard.
ProgressFairness ==
    /\ \A x \in Writers : SF_vars(WriteAcquire(x)) /\ WF_vars(WriterStep(x))
    /\ \A w \in Watchers : WF_vars(WatchSubscribe(w)) /\ WF_vars(WatchLoopCheck(w))

ProgressSpec == InitOpen /\ [][NextProgress]_vars /\ ProgressFairness

\* ------------------------------------------------------------------ claims

Range(f) == {f[i] : i \in DOMAIN f}

\* What a check of watcher w would compute in the current state.
CheckNow(w) == ReadChangeLogs(Filter(w).cluster, Filter(w).tenants, follow_ver[w])

\* C1: no lost wake-up at subscribe time.  Between the initial check that found
\* the response not due and the subscribe, the watcher holds the read guard and
\* no write commits (the store is still at the version the check saw); and a
\* watcher blocked in the wait while a response is due has an event to receive.
C1_NoLostWakeup ==
    \A w \in Watchers :
        /\ pc[w] = "checked" =>
              /\ w \in lock_readers
              /\ lock_writer = {}
              /\ watch_data[w].max_ver = version
        /\ (pc[w] = "waiting" /\ NeedReturn(CheckNow(w), req[w].base_ver)) =>
              /\ notify[w] # NoSub
              /\ notify[w] < watch_tail

\* A write committed after the watcher subscribed, and its event is pending.
C1_Witness ==
    \E w \in Watchers :
        /\ pc[w] = "waiting"
        /\ version > req[w].base_ver
        /\ notify[w] # NoSub /\ notify[w] < watch_tail

\* The rows of the change log that match watcher w's filter.
MatchingVersions(w) ==
    {v \in 1..Len(change_logs) :
        Matches(change_logs[v], req[w].cluster, req[w].tenants)}

Increasing(q) == \A i, j \in 1..Len(q) : i < j => q[i] < q[j]

\* C2: no write is lost to a watcher that follows the change log.  What it has
\* received so far is in increasing version order without repeats, is exactly
\* the matching rows up to the base_ver of its next call, and again and again
\* it has received every matching row applied so far; as what it has received
\* only grows, every matching row is eventually received.
C2_NoWriteLost ==
    /\ [](\A w \in Watchers :
             /\ Increasing(seen[w])
             /\ Range(seen[w]) = {v \in MatchingVersions(w) : v <= req[w].base_ver})
    /\ \A w \in Watchers : []<>(Range(seen[w]) = MatchingVersions(w))

\* Both watchers have received a row, and one of them has received two.
C2_Witness ==
    /\ \A w \in Watchers : seen[w] # <<>>
    /\ \E w \in Watchers : Len(seen[w]) = 2

\* C3: every watch call terminates, under fair scheduling and advancing time.
C3_WatchTerminates ==
    \A w \in Watchers : (pc[w] = "acquire") ~> (pc[w] = "returned")

\* A call returned although no write ever occurred and its filter matches nothing.
C3_Witness ==
    \E w \in Watchers :
        /\ pc[w] = "returned"
        /\ req[w].cluster = "c2"
        /\ version = 0
        /\ woke[w] = "timeout"

\* C4: the hard ceiling bounds the blocking of a watch call: no session is
\* still blocked in the wait once more than 30 s have elapsed since it started.
C4_ReturnedByCeiling ==
    \A w \in Watchers : pc[w] = "waiting" => elapsed[w] <= HardCeiling

\* C5: a call whose base_ver is the store's version, with no write during the
\* call, does not return before the hard ceiling has elapsed, and returns no
\* entry and max_ver = base_ver.
C5_IdleReturnsAtCeiling ==
    \A w \in Watchers :
        (pc[w] = "returned" /\ rsp[w].kind = "ok" /\ version = req[w].base_ver) =>
            /\ elapsed[w] > HardCeiling
            /\ rsp[w].data.entry_logs = <<>>
            /\ rsp[w].data.max_ver = req[w].base_ver

C5_Witness ==
    \E w \in Watchers :
        /\ pc[w] = "returned" /\ rsp[w].kind = "ok"
        /\ version = req[w].base_ver
        /\ woke[w] = "timeout"
        /\ elapsed[w] > HardCeiling

\* C6: a watcher blocked in the wait, followed by one matching write: the
\* write's event is there for it to receive, the wait then ends on the event and
\* not on the timeout, and the next check returns exactly the new row with
\* max_ver the version the write was given.
C6_WokenByWrite ==
    [][\A w \in Watchers :
          /\ (pc[w] = "waiting" /\ version' = version + 1) =>
                 (notify'[w] # NoSub /\ notify'[w] < watch_tail')
          /\ (pc[w] = "waiting" /\ pc'[w] = "reacquire" /\ notify[w] < watch_tail) =>
                 woke'[w] = "event"
          /\ (/\ pc[w] = "loop_read" /\ pc'[w] # "loop_read"
              /\ version = req[w].base_ver + 1
              /\ version \in MatchingVersions(w)) =>
                 /\ pc'[w] = "returned"
                 /\ rsp'[w] = Replied([entry_logs |-> <<change_logs[version]>>,
                                       max_ver |-> version])
      ]_vars

\* A watcher woken by the event of one matching write returned, before the
\* idle timeout, the one new row.
C6_Witness ==
    \E w \in Watchers :
        /\ pc[w] = "returned" /\ rsp[w].kind = "ok"
        /\ woke[w] = "event"
        /\ elapsed[w] < IdleTimeout
        /\ Len(rsp[w].data.entry_logs) = 1
        /\ rsp[w].data.max_ver = req[w].base_ver + 1
        /\ rsp[w].data.entry_logs[1].version = rsp[w].data.max_ver

Entries(w) == Range(rsp[w].data.entry_logs)

\* C7 as stated: every entry of a response belongs to the requested cluster and
\* to one of the requested tenants.
C7_EntriesInRequestedTenants ==
    \A w \in Watchers :
        (pc[w] = "returned" /\ rsp[w].kind = "ok") =>
            \A e \in Entries(w) : e.cluster = req[w].cluster /\ e.tenant \in req[w].tenants

\* C7, amended: every entry of a response belongs to the requested cluster and,
\* unless the requested tenant set is empty (which asks for every tenant of the
\* cluster), to one of the requested tenants.
C7_FilterSafety ==
    \A w \in Watchers :
        (pc[w] = "returned" /\ rsp[w].kind = "ok") =>
            \A e \in Entries(w) :
                /\ e.cluster = req[w].cluster
                /\ (req[w].tenants = {} \/ e.tenant \in req[w].tenants)

\* A watch for tenant a returned from the loop with max_ver advanced past a
\* write to tenant b.
C7_Witness ==
    \E w \in Watchers :
        /\ pc[w] = "returned" /\ rsp[w].kind = "ok"
        /\ woke[w] # "none"
        /\ req[w].tenants = {"a"}
        /\ \E v \in 1..Len(change_logs) :
               /\ change_logs[v].tenant = "b"
               /\ req[w].base_ver < v /\ v <= rsp[w].data.max_ver

\* C8: the version counter has advanced by one per applied write, the rows of
\* the change log carry the versions 1, 2, ... in order (so no two share one and
\* the counter is the highest, 0 when the log is empty), and no two writers are
\* working from the same version.
C8_VersionLog ==
    /\ version = Len(change_logs)
    /\ \A i \in 1..Len(change_logs) : change_logs[i].version = i
    /\ \A x \in Writers : pc[x] = "observed" => wver[x] = version
    /\ Cardinality({x \in Writers : pc[x] = "observed"}) <= 1

\* Both writers have applied a write.
C8_Witness ==
    /\ Len(change_logs) = 2
    /\ change_logs[1].tenant # change_logs[2].tenant

\* C9: at most one request holds the write guard, and while it does none holds
\* a read guard; the guards are held by exactly the requests between their
\* lock acquisition and their release.
C9_MutualExclusion ==
    /\ Cardinality(lock_writer) <= 1
    /\ lock_writer # {} => lock_readers = {}
    /\ lock_writer = {x \in Writers : pc[x] \in {"locked", "observed"}}
    /\ lock_readers = {p \in Watchers \cup Readers : pc[p] \in {"checked", "loop_read", "locked"}}

\* Two requests hold read guards at the same time.
C9_Witness == Cardinality(lock_readers) >= 2

\* C10: a step that applies a write sends exactly one event, under the write
\* guard, and every receiver subscribed then has one more to receive; a step
\* that applies none (a refused write among them) sends none and appends no
\* row; a receiver created by subscribe starts at the tail, so it does not
\* get the events sent before.
C10_OneEventPerWrite ==
    [][/\ version' # version =>
             /\ watch_tail' = watch_tail + 1
             /\ Len(change_logs') = Len(change_logs) + 1
             /\ \E x \in Writers : lock_writer = {x} /\ pc[x] = "observed"
             /\ lock_readers = {}
             /\ \A w \in Watchers : notify[w] # NoSub => notify'[w] = notify[w]
       /\ version' = version =>
             /\ watch_tail' = watch_tail
             /\ change_logs' = change_logs
       /\ \A w \in Watchers :
             (notify[w] = NoSub /\ notify'[w] # NoSub) => notify'[w] = watch_tail'
      ]_vars

\* One watcher has an event to receive; the other subscribed after it was sent
\* and has none.
C10_Witness ==
    \E w, u \in Watchers :
        /\ notify[w] # NoSub /\ notify[w] < watch_tail
        /\ notify[u] # NoSub /\ notify[u] = watch_tail

\* C11 as stated: every response of a watch call has max_ver >= base_ver,
\* whatever base_ver the client sent, on both return paths.
C11_MaxVerAtLeastBase ==
    \A w \in Watchers :
        (pc[w] = "returned" /\ rsp[w].kind = "ok") =>
            rsp[w].data.max_ver >= req[w].base_ver

\* The rows a response to watcher w should hold, counted from the base_ver the
\* client sent up to the max_ver the response carries.
RowsSinceBase(w) ==
    SelectSeq(change_logs,
              LAMBDA e : /\ e.version > req[w].base_ver
                         /\ e.version <= rsp[w].data.max_ver
                         /\ Matches(e, req[w].cluster, req[w].tenants))

\* C12: the entries of every response are exactly the matching rows with a
\* version in (base_ver, max_ver], so they are empty iff there is no such row;
\* also when the response was computed in the loop, from follow_ver.
C12_ResponseComplete ==
    \A w \in Watchers :
        (pc[w] = "returned" /\ rsp[w].kind = "ok") =>
            /\ rsp[w].data.entry_logs = RowsSinceBase(w)
            /\ (rsp[w].data.entry_logs = <<>>) <=>
                   ~ \E v \in MatchingVersions(w) :
                         req[w].base_ver < v /\ v <= rsp[w].data.max_ver

\* A response computed in the loop, for a client that had already seen version
\* 1, holds the row written next.
C12_Witness ==
    \E w \in Watchers :
        /\ pc[w] = "returned" /\ rsp[w].kind = "ok"
        /\ woke[w] = "event"
        /\ req[w].base_ver = 1
        /\ Len(rsp[w].data.entry_logs) = 1
        /\ rsp[w].data.entry_logs[1].version = 2

\* The request of p was found malformed and its rejection is not yet sent.
DecodeFailed(p) ==
    IF p \in Watchers THEN pc[p] = "returned" /\ rsp[p].kind = "rejected"
    ELSE pc[p] = "rejected"

\* C13: a request with a malformed body is rejected and touches nothing: from
\* its arrival to the sending of the rejection it holds no guard and no
\* receiver, and its steps leave the version, the change log, the channel and
\* the lock as they were.
C13_DecodeFailureNoEffect ==
    /\ [](\A p \in Procs :
             DecodeFailed(p) =>
                 /\ p \notin lock_readers \cup lock_writer
                 /\ p \in Watchers => notify[p] = NoSub)
    /\ [][\A p \in Procs :
             ((pc[p] = "idle" /\ DecodeFailed(p)') \/ (DecodeFailed(p) /\ pc'[p] = "idle")) =>
                 UNCHANGED <<storeVars, lockVars, notify>>
         ]_vars

\* Malformed watch and write requests are being rejected while the store holds
\* a row and a reader holds a guard.
C13_Witness ==
    /\ DecodeFailed("w1")
    /\ \E x \in Writers : DecodeFailed(x)
    /\ version > 0
    /\ lock_readers # {}

\* C14: when the response computed by the initial check is due, the call
\* returns it at once: it creates no receiver and never waits.  After one
\* matching write, given version 1, a watcher with base_ver 0 gets exactly that
\* row and max_ver 1.  A response that is not due is not returned by that check.
C14_ImmediateReturn ==
    [][\A w \in Watchers :
          (pc[w] = "acquire" /\ pc'[w] # "acquire") =>
              LET data == ReadChangeLogs(req[w].cluster, req[w].tenants, req[w].base_ver) IN
              /\ NeedReturn(data, req[w].base_ver) =>
                    /\ pc'[w] = "returned"
                    /\ rsp'[w] = Replied(data)
                    /\ notify'[w] = NoSub
                    /\ woke'[w] = "none"
                    /\ w \notin lock_readers'
              /\ ~NeedReturn(data, req[w].base_ver) => pc'[w] = "checked"
              /\ (/\ req[w].base_ver = 0 /\ version = 1
                  /\ Matches(change_logs[1], req[w].cluster, req[w].tenants)) =>
                    rsp'[w] = Replied([entry_logs |-> <<change_logs[1]>>, max_ver |-> 1])
      ]_vars

\* The call returned straight from the initial check with the one row written
\* before it.
C14_Witness ==
    \E w \in Watchers :
        /\ pc[w] = "returned" /\ rsp[w].kind = "ok"
        /\ woke[w] = "none" /\ notify[w] = NoSub
        /\ req[w].base_ver = 0
        /\ rsp[w].data.max_ver = 1
        /\ Len(rsp[w].data.entry_logs) = 1
        /\ rsp[w].data.entry_logs[1].version = 1

\* Watcher w is in the loop of process_watch: follow_ver and the receiver exist.
InLoop(w) == pc[w] \in {"waiting", "reacquire", "loop_read"}

Max(a, b) == IF a >= b THEN a ELSE b

\* C15: within a session follow_ver starts at base_ver, never decreases, changes
\* only at a check that does not return, and is then the larger of its old
\* value and that check's max_ver; so it is at least base_ver, and at most the
\* store's version whenever base_ver is.
C15_FollowMonotonic ==
    /\ [](\A w \in Watchers :
             InLoop(w) =>
                 /\ follow_ver[w] >= req[w].base_ver
                 /\ req[w].base_ver <= version => follow_ver[w] <= version)
    /\ [][\A w \in Watchers :
             /\ (pc[w] = "checked" /\ pc'[w] = "waiting") =>
                    follow_ver'[w] = req[w].base_ver
             /\ (InLoop(w) /\ InLoop(w)') =>
                    /\ follow_ver'[w] >= follow_ver[w]
                    /\ follow_ver'[w] # follow_ver[w] =>
                           (pc[w] = "loop_read" /\ pc'[w] = "waiting")
             /\ (pc[w] = "loop_read" /\ pc'[w] = "waiting") =>
                    follow_ver'[w] = Max(follow_ver[w], version)
         ]_vars

\* A check that did not return has been made, by a session whose base_ver is
\* ahead of the store.
C15_Witness ==
    \E w \in Watchers :
        /\ pc[w] = "waiting"
        /\ elapsed[w] >= IdleTimeout
        /\ version < req[w].base_ver
        /\ follow_ver[w] = req[w].base_ver

\* C16: every check, the initial one and those of the loop, decides against
\* the base_ver the client sent: once the store's version has passed it the
\* check returns, and when no row written since matches the filter the
\* response has no entry and max_ver > base_ver.
C16_NeedReturnAgainstBase ==
    [][\A w \in Watchers :
          (/\ pc[w] \in {"acquire", "loop_read"} /\ pc'[w] # pc[w]
           /\ version > req[w].base_ver) =>
              /\ pc'[w] = "returned"
              /\ rsp'[w].kind = "ok"
              /\ rsp'[w].data.max_ver = version
              /\ (~ \E v \in MatchingVersions(w) : v > req[w].base_ver) =>
                     rsp'[w].data.entry_logs = <<>>
      ]_vars

\* A watcher of tenant a was woken by a write to tenant b and returned no
\* entry and the new version.
C16_Witness ==
    \E w \in Watchers :
        /\ pc[w] = "returned" /\ rsp[w].kind = "ok"
        /\ woke[w] = "event"
        /\ req[w].tenants = {"a"}
        /\ rsp[w].data.entry_logs = <<>>
        /\ rsp[w].data.max_ver > req[w].base_ver

\* C17: a watch session holds the read guard only while it checks, never while
\* it waits for an event or the timeout; so a write request that asks for the
\* write guard, whatever number of watchers are waiting, gets it and completes:
\* no writer stays in a request for ever.
C17_WaitingHoldsNoLock ==
    /\ [](\A w \in Watchers :
             /\ w \notin lock_writer
             /\ w \in lock_readers => pc[w] \in {"checked", "loop_read"}
             /\ pc[w] = "waiting" => w \notin lock_readers)
    /\ \A x \in Writers : []<>(pc[x] = "idle")

\* A writer holds the write guard while both watchers wait.
C17_Witness ==
    /\ \A w \in Watchers : pc[w] = "waiting"
    /\ \E x \in Writers : pc[x] = "observed" /\ x \in lock_writer

\* C18: the receivers that exist are exactly those of the watch sessions that
\* subscribed after an initial check that was not due and have not returned: a
\* session that returned, on due data, on the hard ceiling or on a decode
\* error, has none, nor has one that has not subscribed yet.
C18_SubscriptionsReleased ==
    {w \in Watchers : notify[w] # NoSub} = {w \in Watchers : InLoop(w)}

\* A session that subscribed and waited returned at the hard ceiling, events
\* having been sent on the channel before it subscribed.
C18_Witness ==
    \E w \in Watchers :
        /\ pc[w] = "returned" /\ rsp[w].kind = "ok"
        /\ woke[w] = "timeout" /\ elapsed[w] > HardCeiling
        /\ watch_tail > 0
        /\ notify[w] = NoSub

\* C19: no wake-up is lost inside the loop.  The receiver created at the
\* initial check is kept for the whole session and moves only when recv takes
\* an event; a write applied while the watcher is between a check that did not
\* return and the end of its next wait leaves it an event to receive; that wait
\* then does not end on the timeout; and a check lets the watcher wait again
\* only if the store has not passed base_ver, and otherwise reports the store's
\* version.
C19_NoLostWakeupInLoop ==
    [][\A w \in Watchers :
          /\ (InLoop(w) /\ InLoop(w)') =>
                 /\ notify'[w] # NoSub
                 /\ notify'[w] # notify[w] =>
                        /\ pc[w] = "waiting" /\ pc'[w] = "reacquire"
                        /\ notify'[w] > notify[w]
          /\ (pc[w] = "waiting" /\ version' > version) =>
                 (pc'[w] = "waiting" /\ notify'[w] < watch_tail')
          /\ (pc[w] = "waiting" /\ woke'[w] = "timeout") => notify[w] = watch_tail
          /\ (pc[w] = "loop_read" /\ pc'[w] = "waiting") => version <= req[w].base_ver
          /\ (pc[w] = "loop_read" /\ pc'[w] = "returned") =>
                 rsp'[w].data.max_ver = version
      ]_vars

\* A write was applied just after a check in the loop let the watcher wait
\* again, and its event is there for the watcher.
C19_Witness ==
    \E w \in Watchers :
        /\ pc[w] = "waiting"
        /\ elapsed[w] >= IdleTimeout /\ wait_left[w] = IdleTimeout
        /\ notify[w] # NoSub /\ notify[w] < watch_tail
        /\ version > req[w].base_ver

\* C20: the hard ceiling is tested only by a check, which follows a wake-up or
\* an idle timeout: a session returns only from a check, a check made after
\* more than 30 s returns, and one that returns a response that is not due was
\* made after more than 30 s.  With no time spent on the lock, a session is over
\* 50 s after its clock started at the latest, and a session during which no
\* event was ever sent returns at its second idle timeout, at 40 s.
C20_CeilingAtChecks ==
    /\ [](\A w \in Watchers :
             /\ (InLoop(w) \/ pc[w] = "returned") =>
                    elapsed[w] <= HardCeiling + IdleTimeout
             /\ (/\ pc[w] = "returned" /\ rsp[w].kind = "ok"
                 /\ woke[w] = "timeout" /\ watch_tail = 0) =>
                    elapsed[w] = 2 * IdleTimeout)
    /\ [][\A w \in Watchers :
             /\ (InLoop(w) /\ pc'[w] = "returned") => pc[w] = "loop_read"
             /\ (pc[w] = "loop_read" /\ pc'[w] # "loop_read" /\ elapsed[w] > HardCeiling) =>
                    pc'[w] = "returned"
             /\ (/\ pc[w] = "loop_read" /\ pc'[w] = "returned"
                 /\ ~NeedReturn(rsp'[w].data, req[w].base_ver)) =>
                    elapsed[w] > HardCeiling
         ]_vars

\* A session returned 50 s after its clock started: a check at 30 s exactly
\* let it wait once more.
C20_Witness ==
    \E w \in Watchers :
        /\ pc[w] = "returned" /\ rsp[w].kind = "ok"
        /\ woke[w] = "timeout"
        /\ elapsed[w] = HardCeiling + IdleTimeout

====
